---------------------------- MODULE Spec2Model ----------------------------
(***************************************************************************)
(* A model of the HTTP facade over the generative-content API.             *)
(*                                                                         *)
(* The repository holds two server entry points that register the same     *)
(* routes: src/index.js and src/unnamed/part_000.  A process runs one of   *)
(* them (the variable `server`).  Each request is followed from its        *)
(* arrival, through the upload middleware (attachment routes) and the      *)
(* synchronous part of its handler, to the awaited external call and the   *)
(* response.                                                               *)
(*                                                                         *)
(* Text is a sequence of characters, so that String.prototype.trim and     *)
(* the base64 encoding are computed and not assumed.  A JavaScript value   *)
(* is a record [t, v]: its typeof-like tag and, for strings and numbers,   *)
(* its characters.                                                         *)
(***************************************************************************)
EXTENDS Integers, Sequences, FiniteSets, TLC

\* ------------------------------------------------------------------ bounds

\* Longest generated prompt string.
MaxStrLen == 2
\* Longest generated upload buffer, in bytes.
MaxBytes == 2
\* Longest generated conversation, in turns.
MaxTurns == 2
\* Request slots that may be in flight at once (specification ConcSpec).
NumReq == 2

\* --------------------------------------------------------- JavaScript values

Undefined == [t |-> "undefined", v |-> <<>>]
Null == [t |-> "null", v |-> <<>>]
Str(s) == [t |-> "string", v |-> s]
Num(s) == [t |-> "number", v |-> s]
\* Some non-null object that is not a string (an array, a nested object).
Obj == [t |-> "object", v |-> <<>>]

\* x is null or undefined: what ?. and ?? test.
Nullish(x) == x.t \in {"undefined", "null"}

\* JavaScript truthiness: what !x and || test.
Truthy(x) ==
  CASE x.t = "string" -> x.v # <<>>
    [] x.t = "number" -> x.v # <<"0">>
    [] x.t = "object" -> TRUE
    [] OTHER -> FALSE

\* ------------------------------------------------------------------- text

WhiteSpace == {" ", "\t", "\n"}

RECURSIVE TrimStart(_)
TrimStart(s) ==
  IF s # <<>> /\ Head(s) \in WhiteSpace THEN TrimStart(Tail(s)) ELSE s

RECURSIVE TrimEnd(_)
TrimEnd(s) ==
  IF s # <<>> /\ s[Len(s)] \in WhiteSpace
  THEN TrimEnd(SubSeq(s, 1, Len(s) - 1))
  ELSE s

\* String.prototype.trim
Trim(s) == TrimEnd(TrimStart(s))

\* The base64 alphabet of Buffer.prototype.toString("base64").
B64Alphabet ==
  << "A", "B", "C", "D", "E", "F", "G", "H", "I", "J", "K", "L", "M",
     "N", "O", "P", "Q", "R", "S", "T", "U", "V", "W", "X", "Y", "Z",
     "a", "b", "c", "d", "e", "f", "g", "h", "i", "j", "k", "l", "m",
     "n", "o", "p", "q", "r", "s", "t", "u", "v", "w", "x", "y", "z",
     "0", "1", "2", "3", "4", "5", "6", "7", "8", "9", "+", "/" >>

B64(i) == B64Alphabet[i + 1]

\* toB64 = (buf) => Buffer.from(buf).toString("base64")
RECURSIVE toB64(_)
toB64(buf) ==
  IF Len(buf) = 0 THEN <<>>
  ELSE IF Len(buf) = 1 THEN
    << B64(buf[1] \div 4), B64((buf[1] % 4) * 16), "=", "=" >>
  ELSE IF Len(buf) = 2 THEN
    << B64(buf[1] \div 4), B64((buf[1] % 4) * 16 + buf[2] \div 16),
       B64((buf[2] % 16) * 4), "=" >>
  ELSE
    << B64(buf[1] \div 4), B64((buf[1] % 4) * 16 + buf[2] \div 16),
       B64((buf[2] % 16) * 4 + buf[3] \div 64), B64(buf[3] % 64) >>
    \o toB64(SubSeq(buf, 4, Len(buf)))

\* ------------------------------------------------------------ configuration

\* const MODEL = "gemini-2.5-flash" (part_000: process.env.MODEL || the same)
MODEL == "gemini-2.5-flash"

\* limits: { fileSize: 10 * 1024 * 1024 }
FileSizeLimit == 10 * 1024 * 1024

\* The fixed config.systemInstruction of the chat payload, one token here.
Persona == << "Kamu adalah asisten AI yang fun dan friendly. ..." >>

allowed == {"image/png", "image/jpeg", "image/webp", "image/gif"}

allowedDocs ==
  {"application/pdf", "text/plain", "text/markdown", "application/msword",
   "application/vnd.openxmlformats-officedocument.wordprocessingml.document"}

allowedAudio ==
  {"audio/webm", "audio/wav", "audio/mpeg", "audio/mp4", "audio/ogg",
   "audio/opus"}

Servers == {"index", "part_000"}

AttachmentRoutes ==
  {"/generate-image", "/generate-from-document", "/generate-from-audio"}

\* The routes each entry point registers; part_000 has no /api/chat.
Routes(s) ==
  {"/health", "/generate-text"} \cup AttachmentRoutes
    \cup (IF s = "index" THEN {"/api/chat"} ELSE {})

\* --------------------------------------------------------------- requests

Chars == {" ", "a"}

SeqsUpTo(S, n) == UNION {[1..k -> S] : k \in 0..n}

\* The spec's scenario prompt, "  hi  ".
HiPrompt == << " ", " ", "h", "i", " ", " " >>

PromptStrings == SeqsUpTo(Chars, MaxStrLen) \cup {HiPrompt}

\* `prompt` of a JSON body: any JSON value, or absent.
JsonPrompts ==
  {Undefined, Null, Num(<<"0">>), Num(<<"7">>), Obj}
    \cup {Str(s) : s \in PromptStrings}

\* `prompt` of a multipart body: absent, a text field, or (a repeated or
\* bracketed field name) an array or object.
FormPrompts == {Undefined, Obj} \cup {Str(s) : s \in PromptStrings}

Bytes == {0, 255}

Buffers == SeqsUpTo(Bytes, MaxBytes)

MimeTypes ==
  allowed \cup allowedDocs \cup allowedAudio
    \cup {"image/bmp", "application/zip", "audio/flac"}

NoFile == [present |-> FALSE, mimetype |-> "", size |-> 0, buffer |-> <<>>]

\* An upload within the size limit: multer keeps its bytes in memory.
SmallFiles ==
  {[present |-> TRUE, mimetype |-> m, size |-> Len(b), buffer |-> b] :
     m \in MimeTypes, b \in Buffers}

\* An upload one byte over the limit; its bytes never reach a handler and
\* are not modelled.
BigFiles ==
  {[present |-> TRUE, mimetype |-> m, size |-> FileSizeLimit + 1,
    buffer |-> <<>>] : m \in MimeTypes}

Files == {NoFile} \cup SmallFiles \cup BigFiles

RoleValues ==
  {Str(<<"user">>), Str(<<"model">>), Str(<<"admin">>), Str(<<"User">>),
   Undefined}

TextValues ==
  {Undefined, Num(<<"7">>), Str(<<>>), Str(<<" ">>), Str(<<" ", "a", " ">>)}

\* One item of `conversation`: an object with role and text, or something
\* that is not an object (null, a string, a number).
Turns ==
  {[isObject |-> TRUE, role |-> r, text |-> t] :
     r \in RoleValues, t \in TextValues}
    \cup {[isObject |-> FALSE, role |-> Undefined, text |-> Undefined]}

NoConversation == [isArray |-> FALSE, items |-> <<>>]

Conversations ==
  {NoConversation}
    \cup {[isArray |-> TRUE, items |-> c] : c \in SeqsUpTo(Turns, MaxTurns)}

Instructions ==
  {Undefined, Num(<<"7">>), Str(<<>>), Str(<<" ">>), Str(<<" ", "a", " ">>)}

Request(route, prompt, file, conversation, instruction) ==
  [route |-> route, prompt |-> prompt, file |-> file,
   conversation |-> conversation, instruction |-> instruction]

NoRequest == Request("", Undefined, NoFile, NoConversation, Undefined)

\* Every request the model sends to entry point s.
Requests(s) ==
  {Request("/health", Undefined, NoFile, NoConversation, Undefined)}
    \cup {Request("/generate-text", p, NoFile, NoConversation, Undefined) :
            p \in JsonPrompts}
    \cup {Request(rt, p, f, NoConversation, Undefined) :
            rt \in AttachmentRoutes, p \in FormPrompts, f \in Files}
    \cup {Request(rt, Undefined, NoFile, c, i) :
            rt \in Routes(s) \cap {"/api/chat"}, c \in Conversations,
            i \in Instructions}

\* ------------------------------------------------- payloads and responses

\* One element of `contents`: a string (a text part), an inlineData part,
\* or a chat message {role, parts: [{text}]}; `text` lists its text parts.
TextItem(value) ==
  [kind |-> "text", role |-> Undefined, text |-> <<value>>, data |-> <<>>,
   mimeType |-> ""]

InlineItem(data, mimeType) ==
  [kind |-> "inlineData", role |-> Undefined, text |-> <<>>, data |-> data,
   mimeType |-> mimeType]

MessageItem(role, text) ==
  [kind |-> "message", role |-> role, text |-> <<text>>, data |-> <<>>,
   mimeType |-> ""]

\* The argument of ai.models.generateContent on the plain routes.
Payload(isArray, items) ==
  [model |-> MODEL, isArray |-> isArray, contents |-> items,
   systemInstruction |-> Undefined, generationConfig |-> <<>>,
   safetySettings |-> <<>>]

NoPayload ==
  [model |-> "", isArray |-> FALSE, contents |-> <<>>,
   systemInstruction |-> Undefined, generationConfig |-> <<>>,
   safetySettings |-> <<>>]

\* res.json({ message }) / res.json({ result }) / res.json({ ok, model });
\* "html" is the page written by Express's own error handler.
JsonBody(key, value) == [type |-> "json", key |-> key, value |-> value]

HtmlBody(what) == [type |-> "html", key |-> what, value |-> Undefined]

NoBody == [type |-> "", key |-> "", value |-> Undefined]

\* What a stretch of handler code did: sent a response, issued the external
\* call, or let an error escape.
Reply(status, body) ==
  [replied |-> TRUE, status |-> status, body |-> body, called |-> FALSE,
   payload |-> NoPayload, thrown |-> FALSE]

Call(payload) ==
  [replied |-> FALSE, status |-> 0, body |-> NoBody, called |-> TRUE,
   payload |-> payload, thrown |-> FALSE]

Throw ==
  [replied |-> FALSE, status |-> 0, body |-> NoBody, called |-> FALSE,
   payload |-> NoPayload, thrown |-> TRUE]

Message(parts) == JsonBody("message", Str(parts))

\* ------------------------------------------------------ handlers: index.js

\* typeof prompt === "string" && prompt.trim() ? prompt.trim() : ""
promptText(prompt) ==
  IF prompt.t = "string" /\ Trim(prompt.v) # <<>> THEN Trim(prompt.v) ELSE <<>>

\* app.get("/health")
Health(q) == Reply(200, JsonBody("health", Str(<<MODEL>>)))

\* app.post("/generate-text"), up to its await
GenerateText(q) ==
  IF promptText(q.prompt) = <<>>
  THEN Reply(400, Message(<<"'prompt' is required (string)">>))
  ELSE Call(Payload(TRUE, <<TextItem(Str(promptText(q.prompt)))>>))

\* contents: [...(promptText ? [promptText] : []), { inlineData }]
AttachmentContents(q) ==
  (IF promptText(q.prompt) # <<>>
   THEN <<TextItem(Str(promptText(q.prompt)))>>
   ELSE <<>>)
    \o <<InlineItem(toB64(q.file.buffer), q.file.mimetype)>>

\* A mutant of GenerateImage: the 415 reply is not returned from, and the
\* handler goes on to the external call.
GenerateImage_NoReturn(q) ==
  IF ~q.file.present
  THEN Reply(400, Message(<<"'image' file is required">>))
  ELSE IF q.file.mimetype \notin allowed
  THEN [Reply(415, Message(<<"Unsupported image type: ", q.file.mimetype>>))
          EXCEPT !.called = TRUE,
                 !.payload = Payload(TRUE, AttachmentContents(q))]
  ELSE Call(Payload(TRUE, AttachmentContents(q)))

\* app.post("/generate-image"), up to its await
GenerateImage(q) ==
  IF ~q.file.present
  THEN Reply(400, Message(<<"'image' file is required">>))
  ELSE IF q.file.mimetype \notin allowed
  THEN Reply(415, Message(<<"Unsupported image type: ", q.file.mimetype>>))
  ELSE Call(Payload(TRUE, AttachmentContents(q)))

\* app.post("/generate-from-document"), up to its await
GenerateFromDocument(q) ==
  IF ~q.file.present
  THEN Reply(400, Message(<<"Document file is required.">>))
  ELSE IF q.file.mimetype \notin allowedDocs
  THEN Reply(415, Message(<<"Unsupported document type: ", q.file.mimetype>>))
  ELSE Call(Payload(TRUE, AttachmentContents(q)))

\* app.post("/generate-from-audio"), up to its await
GenerateFromAudio(q) ==
  IF ~q.file.present
  THEN Reply(400, Message(<<"Audio file is required.">>))
  ELSE IF q.file.mimetype \notin allowedAudio
  THEN Reply(415, Message(<<"Unsupported audio type: ", q.file.mimetype>>))
  ELSE Call(Payload(TRUE, AttachmentContents(q)))

ItemNotObject == <<"Setiap item conversation harus object">>
BadRole == <<"role harus 'user' atau 'model'">>
BadText == <<"text harus string dan tidak kosong">>

\* The three checks of the loop body on one item; <<>> when it passes.
CheckTurn(msg) ==
  IF ~msg.isObject THEN ItemNotObject
  ELSE IF msg.role \notin {Str(<<"user">>), Str(<<"model">>)} THEN BadRole
  ELSE IF msg.text.t # "string" \/ Trim(msg.text.v) = <<>> THEN BadText
  ELSE <<>>

\* A mutant of ValidateTurns: only the first item is checked.
ValidateTurns_FirstOnly(items) ==
  IF items = <<>> THEN <<>> ELSE CheckTurn(Head(items))

\* for (const msg of conversation) { ... }: the message of the first check
\* that fails, in order, or <<>>.
RECURSIVE ValidateTurns(_)
ValidateTurns(items) ==
  IF items = <<>> THEN <<>>
  ELSE IF CheckTurn(Head(items)) # <<>> THEN CheckTurn(Head(items))
  ELSE ValidateTurns(Tail(items))

\* conversation.map(({ role, text }) => ({ role, parts: [{ text }] }))
ChatContents(items) ==
  [i \in 1..Len(items) |-> MessageItem(items[i].role, items[i].text)]

\* const systemInstruction = typeof instruction === "string" &&
\*   instruction.trim() ? instruction.trim() : null
systemInstruction(instruction) ==
  IF instruction.t = "string" /\ Trim(instruction.v) # <<>>
  THEN Str(Trim(instruction.v))
  ELSE Null

\* const requestPayload = { model, contents, generationConfig,
\*   safetySettings, config: { systemInstruction: `...` } }
\* The local systemInstruction is computed and not used.
requestPayload(q) ==
  [model |-> MODEL, isArray |-> TRUE,
   contents |-> ChatContents(q.conversation.items),
   systemInstruction |-> Str(Persona),
   generationConfig |-> <<[temperature |-> "0.8", maxOutputTokens |-> 1000]>>,
   safetySettings |->
     <<[category |-> "HARM_CATEGORY_HARASSMENT",
        threshold |-> "BLOCK_MEDIUM_AND_ABOVE"]>>]

\* app.post("/api/chat"), up to its await
ApiChat(q) ==
  IF ~q.conversation.isArray \/ Len(q.conversation.items) = 0
  THEN Reply(400, Message(
         <<"Field 'conversation' wajib berupa array dan tidak boleh kosong">>))
  ELSE IF ValidateTurns(q.conversation.items) # <<>>
  THEN Reply(400, Message(ValidateTurns(q.conversation.items)))
  ELSE Call(requestPayload(q))

\* ------------------------------------------------------ handlers: part_000

\* app.post("/generate-text"): if (!prompt || typeof prompt !== "string")
GenerateText_part000(q) ==
  IF ~Truthy(q.prompt) \/ q.prompt.t # "string"
  THEN Reply(400, Message(<<"'prompt' is required (string)">>))
  ELSE Call(Payload(FALSE, <<TextItem(q.prompt)>>))

\* contents: [prompt, { inlineData }]
AttachmentContents_part000(q) ==
  <<TextItem(q.prompt), InlineItem(toB64(q.file.buffer), q.file.mimetype)>>

\* app.post("/generate-image")
GenerateImage_part000(q) ==
  IF ~Truthy(q.prompt)
  THEN Reply(400, Message(<<"'prompt' is required">>))
  ELSE IF ~q.file.present
  THEN Reply(400, Message(<<"'image' file is required">>))
  ELSE IF q.file.mimetype \notin allowed
  THEN Reply(415, Message(<<"Unsupported image type: ", q.file.mimetype>>))
  ELSE Call(Payload(TRUE, AttachmentContents_part000(q)))

\* app.post("/generate-from-document"): no type check
GenerateFromDocument_part000(q) ==
  IF ~Truthy(q.prompt)
  THEN Reply(400, Message(<<"Prompt is required.">>))
  ELSE IF ~q.file.present
  THEN Reply(400, Message(<<"Document file is required.">>))
  ELSE Call(Payload(TRUE, AttachmentContents_part000(q)))

\* app.post("/generate-from-audio"): no type check
GenerateFromAudio_part000(q) ==
  IF ~Truthy(q.prompt)
  THEN Reply(400, Message(<<"Prompt is required.">>))
  ELSE IF ~q.file.present
  THEN Reply(400, Message(<<"Audio file is required.">>))
  ELSE Call(Payload(TRUE, AttachmentContents_part000(q)))

\* ------------------------------------------- after the await, both files

\* What ai.models.generateContent resolves with: nothing (undefined or
\* null), or an object that may carry `text` and `output`.
Responses ==
  {[isNullish |-> TRUE, text |-> Undefined, output |-> Undefined]}
    \cup {[isNullish |-> FALSE, text |-> t, output |-> o] :
            t \in {Undefined, Null, Str(<<>>), Str(<<"t">>)},
            o \in {Undefined, Str(<<"o">>)}}

\* What it rejects with: an Error with a message, one with an empty
\* message, an object with no message, or a thrown null.
Errors ==
  {[isNullish |-> FALSE, message |-> Str(<<"boom">>)],
   [isNullish |-> FALSE, message |-> Str(<<>>)],
   [isNullish |-> FALSE, message |-> Undefined],
   [isNullish |-> TRUE, message |-> Undefined]}

NoResponse == [isNullish |-> TRUE, text |-> Undefined, output |-> Undefined]
NoError == [isNullish |-> TRUE, message |-> Undefined]

Pending == [state |-> "pending", response |-> NoResponse, error |-> NoError]
Resolved(response) ==
  [state |-> "resolved", response |-> response, error |-> NoError]
Rejected(error) ==
  [state |-> "rejected", response |-> NoResponse, error |-> error]

Outcomes == {Resolved(x) : x \in Responses} \cup {Rejected(e) : e \in Errors}

\* A mutant of ExtractText: || in place of ??, so an empty text falls
\* through to output.
ExtractText_Or(response) ==
  IF ~response.isNullish /\ Truthy(response.text) THEN response.text
  ELSE IF ~response.isNullish /\ Truthy(response.output) THEN response.output
  ELSE Str(<<>>)

\* response?.text ?? response?.output ?? ""
ExtractText(response) ==
  IF ~response.isNullish /\ ~Nullish(response.text) THEN response.text
  ELSE IF ~response.isNullish /\ ~Nullish(response.output) THEN response.output
  ELSE Str(<<>>)

\* return res.status(200).json({ result: text })
OnFulfilled(response) == Reply(200, JsonBody("result", ExtractText(response)))

\* A mutant of CatchError: the handler has no catch and the rejection
\* escapes it.
CatchError_Rethrow(error) == Throw

\* catch (error) { return res.status(500)
\*   .json({ message: error?.message || "Internal error" }) }
CatchError(error) ==
  Reply(500, JsonBody("message",
    IF ~error.isNullish /\ Truthy(error.message)
    THEN error.message
    ELSE Str(<<"Internal error">>)))

\* ------------------------------------------------------------- middleware

\* upload.single(field): multer's fileSize limit
upload(q) ==
  IF q.file.present /\ q.file.size > FileSizeLimit
  THEN "LIMIT_FILE_SIZE"
  ELSE ""

\* No error-handling middleware is registered, so an error passed to next()
\* reaches Express's own handler: the error carries no status, the response
\* is 500 and its body an HTML page (the stack trace, or outside development
\* the status text).
ErrorPages == {"stack", "status text"}

DefaultErrorHandler(page) == Reply(500, HtmlBody(page))

\* The handler each entry point registers for a route, up to its await.
Handler(s, q) ==
  CASE q.route = "/health" -> Health(q)
    [] q.route = "/generate-text" ->
         IF s = "index" THEN GenerateText(q) ELSE GenerateText_part000(q)
    [] q.route = "/generate-image" ->
         IF s = "index" THEN GenerateImage(q) ELSE GenerateImage_part000(q)
    [] q.route = "/generate-from-document" ->
         IF s = "index" THEN GenerateFromDocument(q)
         ELSE GenerateFromDocument_part000(q)
    [] q.route = "/generate-from-audio" ->
         IF s = "index" THEN GenerateFromAudio(q)
         ELSE GenerateFromAudio_part000(q)
    [] q.route = "/api/chat" -> ApiChat(q)

\* ------------------------------------------------------------------ state

Reqs == 1..NumReq

ApiKeys == {Undefined, Str(<<>>), Str(<<"key">>)}

NoRes == [status |-> 0, body |-> NoBody]

VARIABLES
  server,   \* the entry point the process runs
  apiKey,   \* process.env.GEMINI_API_KEY
  alive,    \* the process is up
  pc,       \* per request: idle, upload, handler, awaiting, settled, responded
  req,      \* per request: what arrived
  payload,  \* per request: what was handed to the external call
  settle,   \* per request: how the external call ended
  res,      \* per request: the response sent last
  sent,     \* per request: how many responses were sent
  calls,    \* per request: how many external calls were issued
  caught    \* per request: the catch block ran

vars ==
  <<server, apiKey, alive, pc, req, payload, settle, res, sent, calls, caught>>

\* const apiKey = process.env.GEMINI_API_KEY; if (!apiKey) throw ...
Init ==
  /\ server \in Servers
  /\ apiKey \in ApiKeys
  /\ alive = Truthy(apiKey)
  /\ pc = [r \in Reqs |-> "idle"]
  /\ req = [r \in Reqs |-> NoRequest]
  /\ payload = [r \in Reqs |-> NoPayload]
  /\ settle = [r \in Reqs |-> Pending]
  /\ res = [r \in Reqs |-> NoRes]
  /\ sent = [r \in Reqs |-> 0]
  /\ calls = [r \in Reqs |-> 0]
  /\ caught = [r \in Reqs |-> FALSE]

\* The effect of a stretch of handler code on request r.
Apply(r, o) ==
  /\ res' = [res EXCEPT ![r] =
               IF o.replied THEN [status |-> o.status, body |-> o.body] ELSE @]
  /\ sent' = [sent EXCEPT ![r] = IF o.replied THEN @ + 1 ELSE @]
  /\ calls' = [calls EXCEPT ![r] = IF o.called THEN @ + 1 ELSE @]
  /\ payload' = [payload EXCEPT ![r] = IF o.called THEN o.payload ELSE @]
  /\ pc' = [pc EXCEPT ![r] =
              IF o.thrown THEN "crashed"
              ELSE IF o.called THEN "awaiting" ELSE "responded"]
  /\ alive' = (alive /\ ~o.thrown)

\* A request from the set S arrives.
ReceiveFrom(r, S) ==
  /\ alive
  /\ pc[r] = "idle"
  /\ \E q \in S :
       /\ req' = [req EXCEPT ![r] = q]
       /\ pc' = [pc EXCEPT ![r] =
                   IF q.route \in AttachmentRoutes THEN "upload" ELSE "handler"]
  /\ UNCHANGED <<server, apiKey, alive, payload, settle, res, sent, calls,
                 caught>>

Receive(r) == ReceiveFrom(r, Requests(server))

\* upload.single(...) runs before the handler of an attachment route.
Upload(r) ==
  /\ alive
  /\ pc[r] = "upload"
  /\ IF upload(req[r]) # ""
     THEN \E page \in ErrorPages : Apply(r, DefaultErrorHandler(page))
     ELSE /\ pc' = [pc EXCEPT ![r] = "handler"]
          /\ UNCHANGED <<alive, payload, res, sent, calls>>
  /\ UNCHANGED <<server, apiKey, req, settle, caught>>

\* The handler runs to its first return or to its await.
Handle(r) ==
  /\ alive
  /\ pc[r] = "handler"
  /\ Apply(r, Handler(server, req[r]))
  /\ UNCHANGED <<server, apiKey, req, settle, caught>>

\* The external call resolves or rejects with one of S.
SettleFrom(r, S) ==
  /\ alive
  /\ pc[r] = "awaiting"
  /\ \E o \in S : settle' = [settle EXCEPT ![r] = o]
  /\ pc' = [pc EXCEPT ![r] = "settled"]
  /\ UNCHANGED <<server, apiKey, alive, req, payload, res, sent, calls,
                 caught>>

Settle(r) == SettleFrom(r, Outcomes)

\* The handler resumes after its await: the result, or the catch block.
Resume(r) ==
  /\ alive
  /\ pc[r] = "settled"
  /\ IF settle[r].state = "resolved"
     THEN Apply(r, OnFulfilled(settle[r].response))
     ELSE Apply(r, CatchError(settle[r].error))
  /\ caught' = [caught EXCEPT ![r] = (settle[r].state = "rejected")]
  /\ UNCHANGED <<server, apiKey, req, settle>>

\* The response is out; everything request-scoped is discarded.
Release(r) ==
  /\ alive
  /\ pc[r] = "responded"
  /\ pc' = [pc EXCEPT ![r] = "idle"]
  /\ req' = [req EXCEPT ![r] = NoRequest]
  /\ payload' = [payload EXCEPT ![r] = NoPayload]
  /\ settle' = [settle EXCEPT ![r] = Pending]
  /\ res' = [res EXCEPT ![r] = NoRes]
  /\ sent' = [sent EXCEPT ![r] = 0]
  /\ calls' = [calls EXCEPT ![r] = 0]
  /\ caught' = [caught EXCEPT ![r] = FALSE]
  /\ UNCHANGED <<server, apiKey, alive>>

\* One request at a time, over every input.
Next ==
  \/ Receive(1)
  \/ Upload(1)
  \/ Handle(1)
  \/ Settle(1)
  \/ Resume(1)
  \/ Release(1)

Spec == Init /\ [][Next]_vars

\* --------------------------------------------------- concurrent requests

PngFile ==
  [present |-> TRUE, mimetype |-> "image/png", size |-> 1, buffer |-> <<255>>]

BmpFile ==
  [present |-> TRUE, mimetype |-> "image/bmp", size |-> 1, buffer |-> <<255>>]

HugePdf ==
  [present |-> TRUE, mimetype |-> "application/pdf",
   size |-> FileSizeLimit + 1, buffer |-> <<>>]

AdminTurn ==
  [isObject |-> TRUE, role |-> Str(<<"admin">>), text |-> Str(<<"x">>)]

\* One request for each way through the handlers: the scenarios of the
\* spec's section 8, an accepted upload and an oversized one.
SampleRequests(s) ==
  {Request("/health", Undefined, NoFile, NoConversation, Undefined),
   Request("/generate-text", Undefined, NoFile, NoConversation, Undefined),
   Request("/generate-image", Str(<<"a">>), PngFile, NoConversation, Undefined),
   Request("/generate-image", Str(<<"a">>), BmpFile, NoConversation, Undefined),
   Request("/generate-from-document", Undefined, HugePdf, NoConversation,
           Undefined),
   Request("/generate-from-audio", Str(<<"a">>), NoFile, NoConversation,
           Undefined)}
    \cup {Request(rt, Undefined, NoFile,
                  [isArray |-> TRUE, items |-> <<AdminTurn>>], Undefined) :
            rt \in Routes(s) \cap {"/api/chat"}}

SampleOutcomes ==
  {Resolved([isNullish |-> FALSE, text |-> Str(<<"t">>), output |-> Undefined]),
   Rejected([isNullish |-> FALSE, message |-> Str(<<"boom">>)])}

ReceiveSample(r) == ReceiveFrom(r, SampleRequests(server))

SettleSample(r) == SettleFrom(r, SampleOutcomes)

\* NumReq requests in flight, interleaved at every step, over the samples.
ConcNext ==
  \E r \in Reqs :
    \/ ReceiveSample(r)
    \/ Upload(r)
    \/ Handle(r)
    \/ SettleSample(r)
    \/ Resume(r)
    \/ Release(r)

ConcSpec == Init /\ [][ConcNext]_vars

\* The event loop runs every callback that is ready, and the external call
\* is taken to settle; a client is not obliged to send or to collect.
Fairness ==
  \A r \in Reqs :
    /\ WF_vars(Upload(r))
    /\ WF_vars(Handle(r))
    /\ WF_vars(SettleSample(r))
    /\ WF_vars(Resume(r))

FairConcSpec == ConcSpec /\ Fairness

\* ----------------------------------------------------------------- claims

Range(f) == {f[i] : i \in DOMAIN f}

\* The handler of request r has run as far as its first return or await, or
\* the request was answered before reaching it.
PastHandler(r) == pc[r] \in {"awaiting", "settled", "responded"}

IsJsonMessage(b) == b.type = "json" /\ b.key = "message" /\ b.value.t = "string"

\* The prompt is a string that is not empty after trimming.
UsablePrompt(p) == p.t = "string" /\ Trim(p.v) # <<>>

AllowList(route) ==
  CASE route = "/generate-image" -> allowed
    [] route = "/generate-from-document" -> allowedDocs
    [] route = "/generate-from-audio" -> allowedAudio

FileRequired(route) ==
  CASE route = "/generate-image" -> <<"'image' file is required">>
    [] route = "/generate-from-document" -> <<"Document file is required.">>
    [] route = "/generate-from-audio" -> <<"Audio file is required.">>

\* C1 for one request.
C1_For(r) ==
  (req[r].route = "/generate-text" /\ PastHandler(r)) =>
    IF UsablePrompt(req[r].prompt)
    THEN /\ calls[r] = 1
         /\ payload[r].contents = <<TextItem(Str(Trim(req[r].prompt.v)))>>
    ELSE /\ res[r].status = 400
         /\ IsJsonMessage(res[r].body)
         /\ calls[r] = 0
         /\ payload[r] = NoPayload

\* C1: POST /generate-text answers 400 with a message and builds no payload
\* when prompt is missing, not a string or blank; otherwise the payload is
\* exactly one text part holding the trimmed prompt.  Stated for both entry
\* points; part_000 falsifies it.
C1_TextPrompt == \A r \in Reqs : C1_For(r)

\* C1 restricted to index.js, which satisfies it.
C1_InIndex == server = "index" => \A r \in Reqs : C1_For(r)

\* C2 for one request.
C2_For(r) ==
  (/\ req[r].route \in AttachmentRoutes
   /\ req[r].file.present
   /\ req[r].file.size <= FileSizeLimit
   /\ req[r].file.mimetype \notin AllowList(req[r].route)
   /\ pc[r] \in {"handler", "awaiting", "settled", "responded"}) =>
    /\ PastHandler(r) =>
         /\ res[r].status = 415
         /\ IsJsonMessage(res[r].body)
         /\ req[r].file.mimetype \in Range(res[r].body.value.v)
    /\ calls[r] = 0

\* C2: on the three attachment routes a file whose MIME type is not in the
\* route's allow-list is answered 415 with a message naming the type,
\* whatever its content or the prompt, and no external call is made.  Stated
\* for both entry points and for uploads within the size limit; part_000
\* falsifies it.
C2_UnsupportedMedia == \A r \in Reqs : C2_For(r)

\* C2 restricted to index.js, which satisfies it.
C2_InIndex == server = "index" => \A r \in Reqs : C2_For(r)

\* C3 for one request.
C3_For(r) ==
  (/\ req[r].route \in AttachmentRoutes
   /\ req[r].file.present
   /\ req[r].file.size <= FileSizeLimit
   /\ req[r].file.mimetype \in AllowList(req[r].route)
   /\ PastHandler(r)) =>
    /\ calls[r] = 1
    /\ payload[r].contents =
         (IF UsablePrompt(req[r].prompt)
          THEN <<TextItem(Str(Trim(req[r].prompt.v)))>>
          ELSE <<>>)
           \o <<InlineItem(toB64(req[r].file.buffer), req[r].file.mimetype)>>

\* C3: an allow-listed file passes normalization with or without a prompt,
\* and the payload is the trimmed prompt as a text part (only when it is a
\* non-blank string) followed by one inline part, last, holding the base64
\* of the bytes and the MIME type.  Stated for both entry points and for
\* uploads within the size limit; part_000 falsifies it.
C3_AttachmentParts == \A r \in Reqs : C3_For(r)

\* C3 restricted to index.js, which satisfies it.
C3_InIndex == server = "index" => \A r \in Reqs : C3_For(r)

\* C4 for one request.
C4_For(r) ==
  (req[r].route \in AttachmentRoutes /\ PastHandler(r)) =>
    /\ ~req[r].file.present =>
         /\ res[r].status = 400
         /\ res[r].body = Message(FileRequired(req[r].route))
         /\ calls[r] = 0
    /\ res[r].status = 400 => ~req[r].file.present

\* C4: a request with no file is answered 400 with the file-required
\* message, before and instead of the type check and whatever the prompt;
\* a missing prompt alone never yields 400.  Stated for both entry points;
\* part_000 falsifies it.
C4_FileRequired == \A r \in Reqs : C4_For(r)

\* C4 restricted to index.js, which satisfies it.
C4_InIndex == server = "index" => \A r \in Reqs : C4_For(r)

\* What the claim calls a failing turn: a role other than exactly "user" or
\* "model" (an item that is no object has none), or a text that is no
\* string or is blank.
RoleFails(turn) ==
  ~turn.isObject \/ turn.role \notin {Str(<<"user">>), Str(<<"model">>)}

TextFails(turn) ==
  ~turn.isObject \/ turn.text.t # "string" \/ Trim(turn.text.v) = <<>>

TurnFails(turn) == RoleFails(turn) \/ TextFails(turn)

\* The error message msg is one that turn earns.
ErrorOfTurn(msg, turn) ==
  \/ msg = ItemNotObject /\ ~turn.isObject
  \/ msg = BadRole /\ turn.isObject /\ RoleFails(turn)
  \/ msg = BadText /\ turn.isObject /\ TextFails(turn)

\* C5 for one request.
C5_For(r) ==
  (req[r].route = "/api/chat" /\ PastHandler(r)) =>
    LET c == req[r].conversation
        bad == {i \in 1..Len(c.items) : TurnFails(c.items[i])}
    IN IF ~c.isArray \/ c.items = <<>>
       THEN res[r].status = 400 /\ IsJsonMessage(res[r].body) /\ calls[r] = 0
       ELSE IF bad # {}
       THEN /\ res[r].status = 400
            /\ IsJsonMessage(res[r].body)
            /\ calls[r] = 0
            /\ LET first == CHOOSE i \in bad : \A j \in bad : i <= j
               IN ErrorOfTurn(res[r].body.value.v, c.items[first])
       ELSE calls[r] = 1 /\ res[r].status # 400

\* C5: POST /api/chat answers 400 when conversation is no array or is empty,
\* or some turn has a role other than "user"/"model" or a text that is no
\* non-blank string; a conversation is accepted only if every turn passes,
\* and the error is the one of the first failing turn.
C5_ChatValidation == \A r \in Reqs : C5_For(r)

\* A conversation whose first turn passes and whose second fails on its
\* text was answered 400 with the text error.
C5_Witness ==
  \E r \in Reqs :
    /\ req[r].route = "/api/chat"
    /\ pc[r] = "responded"
    /\ Len(req[r].conversation.items) = 2
    /\ ~TurnFails(req[r].conversation.items[1])
    /\ ~RoleFails(req[r].conversation.items[2])
    /\ res[r].body = Message(BadText)

\* The instruction as the claim has it: trimmed, absent when it is missing,
\* no string or blank.
InstructionSent(r) ==
  \/ UsablePrompt(req[r].instruction)
       /\ payload[r].systemInstruction = Str(Trim(req[r].instruction.v))
  \/ ~UsablePrompt(req[r].instruction) /\ Nullish(payload[r].systemInstruction)

\* C6: a valid conversation reaches the external call with its turns in
\* order and number, each one message with the turn's role and one text part
\* holding the text unchanged, and with the trimmed instruction (absent when
\* missing, no string or blank) as the payload's system instruction.  The
\* code falsifies the last part.
C6_ChatPayload ==
  \A r \in Reqs :
    (req[r].route = "/api/chat" /\ calls[r] = 1) =>
      /\ Len(payload[r].contents) = Len(req[r].conversation.items)
      /\ \A i \in 1..Len(payload[r].contents) :
           /\ payload[r].contents[i].kind = "message"
           /\ payload[r].contents[i].role = req[r].conversation.items[i].role
           /\ payload[r].contents[i].text =
                <<req[r].conversation.items[i].text>>
      /\ InstructionSent(r)

\* The part of C6 about the turns, which the code satisfies.
C6_TurnsOnly ==
  \A r \in Reqs :
    (req[r].route = "/api/chat" /\ calls[r] = 1) =>
      /\ Len(payload[r].contents) = Len(req[r].conversation.items)
      /\ \A i \in 1..Len(payload[r].contents) :
           /\ payload[r].contents[i].kind = "message"
           /\ payload[r].contents[i].role = req[r].conversation.items[i].role
           /\ payload[r].contents[i].text =
                <<req[r].conversation.items[i].text>>

\* The error has a text: it is an object whose message is a non-empty string.
HasText(e) == ~e.isNullish /\ e.message.t = "string" /\ e.message.v # <<>>

\* C7: on every route, an error raised by the external call is caught and
\* answered, once, with 500 and {message}: the error's text, or "Internal
\* error" when it has none; the process stays up.
C7_UpstreamError ==
  \A r \in Reqs :
    (settle[r].state = "rejected" /\ pc[r] # "settled") =>
      /\ pc[r] = "responded"
      /\ alive
      /\ sent[r] = 1
      /\ caught[r]
      /\ res[r].status = 500
      /\ res[r].body =
           JsonBody("message",
                    IF HasText(settle[r].error)
                    THEN settle[r].error.message
                    ELSE Str(<<"Internal error">>))

\* An error with an empty message was answered with the fallback text, and
\* the process is up.
C7_Witness ==
  \E r \in Reqs :
    /\ pc[r] = "responded"
    /\ settle[r] = Rejected([isNullish |-> FALSE, message |-> Str(<<>>)])
    /\ res[r].body = JsonBody("message", Str(<<"Internal error">>))
    /\ alive

\* C8: on every attachment route an upload over 10 MiB is rejected with 413
\* before the handler runs, and every error response is a JSON object with
\* a message and no stack trace.  The code falsifies the status and the
\* body.
C8_PayloadTooLarge ==
  \A r \in Reqs :
    /\ (/\ req[r].route \in AttachmentRoutes
        /\ req[r].file.present
        /\ req[r].file.size > FileSizeLimit
        /\ pc[r] \notin {"idle", "upload"}) =>
         /\ pc[r] = "responded"
         /\ calls[r] = 0
         /\ res[r].status = 413
    /\ res[r].status >= 400 => IsJsonMessage(res[r].body)

\* The part of C8 about the order, which the code satisfies: the oversized
\* upload is answered without the handler's validation or the external call.
C8_BeforeHandler ==
  \A r \in Reqs :
    (/\ req[r].file.size > FileSizeLimit
     /\ pc[r] \notin {"idle", "upload"}) =>
      /\ pc[r] = "responded"
      /\ calls[r] = 0
      /\ res[r].status \notin {400, 415}

\* A field of the response is present: neither undefined nor null.
Present(x) == x.t \notin {"undefined", "null"}

ExpectedShape(x) == ~x.isNullish /\ (Present(x.text) \/ Present(x.output))

\* C9 as stated: a normal return gives 200 {result} with text, else output;
\* an unexpected shape gives 500 with a message.  The code falsifies the
\* second half.
C9_UnexpectedShapeIs500 ==
  \A r \in Reqs :
    (settle[r].state = "resolved" /\ pc[r] = "responded") =>
      LET x == settle[r].response
      IN IF ExpectedShape(x)
         THEN res[r] =
                [status |-> 200,
                 body |-> JsonBody("result",
                            IF Present(x.text) THEN x.text ELSE x.output)]
         ELSE res[r].status = 500 /\ IsJsonMessage(res[r].body)

\* C9 as amended: a normal return gives 200 {result} with text if present,
\* else output if present, else the empty string; an unexpected shape is
\* answered 200 {result: ""}.
C9_ResultExtraction ==
  \A r \in Reqs :
    (settle[r].state = "resolved" /\ pc[r] # "settled") =>
      LET x == settle[r].response
      IN /\ pc[r] = "responded"
         /\ sent[r] = 1
         /\ res[r] =
              [status |-> 200,
               body |-> JsonBody("result",
                          IF ~x.isNullish /\ Present(x.text) THEN x.text
                          ELSE IF ~x.isNullish /\ Present(x.output)
                          THEN x.output
                          ELSE Str(<<>>))]

\* A call that resolved with no response object was answered 200 with an
\* empty result.
C9_Witness ==
  \E r \in Reqs :
    /\ pc[r] = "responded"
    /\ settle[r].state = "resolved"
    /\ settle[r].response.isNullish
    /\ res[r] = [status |-> 200, body |-> JsonBody("result", Str(<<>>))]

\* The safety part of C10, for one request.
C10_For(r) ==
  /\ sent[r] <= 1
  /\ calls[r] <= 1
  /\ (sent[r] = 1) = (pc[r] = "responded")
  /\ res[r].status \in {400, 415} => (calls[r] = 0 /\ ~caught[r])
  /\ calls[r] = 1 => ~Handler(server, req[r]).replied
  /\ calls[r] = 0 => pc[r] \notin {"awaiting", "settled"}
  /\ (sent[r] = 1 /\ calls[r] = 1) => settle[r].state # "pending"
  /\ caught[r] => (calls[r] = 1 /\ settle[r].state = "rejected")

C10_Safety == \A r \in Reqs : C10_For(r)

\* C10: under any interleaving, every request gets exactly one response; the
\* external call is issued at most once and only when the handler's checks
\* have all passed, so a request answered 400 or 415 issues no call and does
\* not pass through the catch block; and a request that issued the call is
\* answered only once the call has resolved or rejected.
C10_OneResponse ==
  /\ []C10_Safety
  /\ \A r \in Reqs : (pc[r] # "idle") ~> (sent[r] = 1)

\* Two requests overlap: one awaits its external call while the other, which
\* arrived and called too, has been answered.
C10_Witness ==
  \E r1, r2 \in Reqs :
    /\ r1 # r2
    /\ pc[r1] = "awaiting"
    /\ pc[r2] = "responded"
    /\ calls[r2] = 1
    /\ sent[r2] = 1

=============================================================================
